---- MODULE Spec2Model ----
(***************************************************************************)
(* Streaming slide parser (generateSlidesStream) and its consumer in the   *)
(* application component (handleGenerate).                                 *)
(*                                                                         *)
(* Text is a sequence of pieces.  A piece is a literal fragment of the raw *)
(* model output; the real text is the concatenation of the pieces.  Every  *)
(* marker token is two pieces long, so a chunk boundary can fall inside a  *)
(* marker, inside a record or inside the title object.                     *)
(***************************************************************************)
EXTENDS Integers, Sequences, FiniteSets, TLC

VARIABLES
  text,            \* the raw output the chunked source will deliver
  pos,             \* number of pieces the source has delivered so far
  buffer,          \* let buffer
  mainTitle,       \* let mainTitle
  slides,          \* let slides
  isComplete,      \* let isComplete
  slideIndex,      \* let slideIndex
  titleYielded,    \* let titleYielded
  pc,              \* where the generator is suspended
  emitted,         \* the snapshots yielded so far, in order
  calls,           \* the onSlideComplete invocations so far, in order
  genError,        \* what the generator threw to its consumer, if anything
  cutInMarker,     \* history: a chunk boundary fell inside a marker token
  chunksSinceTitle,  \* history: chunks pulled after the title-only snapshot
                     \* and before the first slide (2 stands for 2 or more)
  topic,           \* useState topic
  isLoading,       \* useState isLoading
  error,           \* useState error: <<>> is null, else <<message>>
  presentation,    \* useState presentation: <<>> is null, else <<value>>
  partialPresentation,  \* useState partialPresentation, likewise
  streamingState,  \* useState streamingState
  preloadState,    \* useState preloadState
  closurePartial,  \* partialPresentation as the memoised handleGenerate sees it
  running,         \* an invocation of handleGenerate is in progress
  other,           \* a second generator, suspended while this one runs:
                   \* <<>> is none, else <<its local variables>>
  interleaved,     \* history: a generator that had started was resumed
                   \* after the other one had run
  requestId,       \* the number of generation requests made so far
  imageCache,      \* utils/cache imageCache: pairs <<key, request>>, the
                   \* request being the one whose fetch stored the entry
  audioCache,      \* utils/cache audioCache, likewise
  fetches,         \* the fetches in flight that end in a cache insertion
  preloads,        \* the invocations of preloadAssets that have not returned
  abandoned,       \* history: Start Over was pressed during the generation
                   \* in progress and no generation was requested since
  imageFetch       \* a call of fetchImageFromInternet with its retries

genVars == <<text, pos, buffer, mainTitle, slides, isComplete, slideIndex,
             titleYielded, pc, emitted, calls, genError, cutInMarker,
             chunksSinceTitle>>

appVars == <<topic, isLoading, error, presentation, partialPresentation,
             streamingState, preloadState, closurePartial, running>>

twoVars == <<other, interleaved>>

sessionVars == <<requestId, imageCache, audioCache, fetches, preloads, abandoned>>

fetchVars == <<imageFetch>>

vars == <<genVars, appVars, twoVars, sessionVars, fetchVars>>

(***************************************************************************)
(* Bounds                                                                  *)
(***************************************************************************)
MaxSegs == 3

\* the generation requests of one session
MaxRequests == 2

\* the largest number of retries a call of fetchImageFromInternet is given
MaxRetries == 3

(***************************************************************************)
(* Pieces of text                                                          *)
(***************************************************************************)
SLIDE_START_DELIMITER == <<"SLIDE_START_", "DELIMITER">>
SLIDE_END_DELIMITER == <<"SLIDE_END_", "DELIMITER">>
PRESENTATION_COMPLETE_DELIMITER == <<"PRESENTATION_COMPLETE_", "DELIMITER">>

Whitespace == {" ", "\n"}

\* the opening of the title object, up to and including the colon
TitleOpen == "{\"main_title\":"

\* quoted non-empty strings without an inner quote: piece :> its content
QuotedStrings == ("\"Topic A\"" :> "Topic A") @@ ("\"Topic B\"" :> "Topic B")

\* string-valued fields of a record: <<piece, key, value>>.  A piece that
\* starts with { opens the object, one that starts with a comma continues it.
OpenFields ==
  { <<"{\"title\":\"T1\"", "title", "T1">>,
    <<"{\"title\":\"T2\"", "title", "T2">>,
    <<"{\"title\":\"\"", "title", "">> }

ContFields ==
  { <<",\"content\":\"C1\"", "content", "C1">>,
    <<",\"content\":\"C2\"", "content", "C2">>,
    <<",\"layout\":\"title_content\"", "layout", "title_content">>,
    <<",\"layout\":\"quote\"", "layout", "quote">>,
    <<",\"layout\":\"\"", "layout", "">>,
    <<",\"layout\":\"freeform\"", "layout", "freeform">>,
    <<",\"image_prompt\":\"\"", "image_prompt", "">>,
    <<",\"image_prompt\":\"P1\"", "image_prompt", "P1">>,
    <<",\"speaker_notes\":\"N1\"", "speaker_notes", "N1">>,
    <<",\"speaker_notes\":\"\"", "speaker_notes", "">>,
    <<",\"subtitle\":\"\"", "subtitle", "">>,
    <<",\"statistics\":\"\"", "statistics", "">> }

\* array-valued fields of a record: <<piece, key, value>>
ArrayFields ==
  { <<",\"keyPoints\":[]", "keyPoints", <<>> >>,
    <<",\"keyPoints\":[\"K1\"]", "keyPoints", <<"K1">> >>,
    <<",\"examples\":[]", "examples", <<>> >> }

\* fields with the value null: <<piece, key>>
NullFields ==
  { <<",\"subtitle\":null", "subtitle">>,
    <<",\"keyPoints\":null", "keyPoints">> }

Piece(f) == f[1]
OpenPieces == { Piece(f) : f \in OpenFields }
ContPieces == { Piece(f) : f \in ContFields \cup ArrayFields \cup NullFields }

(***************************************************************************)
(* String operations of the runtime, on sequences of pieces                *)
(***************************************************************************)
\* s.substring(from, to): zero-based, from inclusive, to exclusive
Substring(s, from, to) == SubSeq(s, from + 1, to)

\* s.substring(from)
SubstringFrom(s, from) == SubSeq(s, from + 1, Len(s))

MatchesAt(s, pat, i) ==
  /\ i + Len(pat) <= Len(s)
  /\ \A k \in 1..Len(pat) : s[i + k] = pat[k]

\* s.indexOf(pat): zero-based index of the first occurrence, or -1
IndexOf(s, pat) ==
  LET hits == { i \in 0..Len(s) : MatchesAt(s, pat, i) }
  IN  IF hits = {} THEN -1 ELSE CHOOSE i \in hits : \A j \in hits : i <= j

\* s.includes(pat)
Includes(s, pat) == IndexOf(s, pat) # -1

RECURSIVE TrimStart(_)
TrimStart(s) ==
  IF s # <<>> /\ Head(s) \in Whitespace THEN TrimStart(Tail(s)) ELSE s

RECURSIVE TrimEnd(_)
TrimEnd(s) ==
  IF s # <<>> /\ s[Len(s)] \in Whitespace
  THEN TrimEnd(SubSeq(s, 1, Len(s) - 1)) ELSE s

\* s.trim()
Trim(s) == TrimEnd(TrimStart(s))

(***************************************************************************)
(* buffer.match(/\{"main_title":\s*"([^"]+)"\}/)                           *)
(***************************************************************************)
RECURSIVE SkipWhitespace(_, _)
SkipWhitespace(s, i) ==
  IF i <= Len(s) /\ s[i] \in Whitespace THEN SkipWhitespace(s, i + 1) ELSE i

\* a match starts at one-based index i; the result is the index of the
\* quoted string, or 0 when there is no match at i
TitleMatchAt(s, i) ==
  IF s[i] # TitleOpen THEN 0
  ELSE LET q == SkipWhitespace(s, i + 1)
       IN  IF /\ q + 1 <= Len(s)
              /\ s[q] \in DOMAIN QuotedStrings
              /\ s[q + 1] = "}"
           THEN q ELSE 0

\* the leftmost match: [found, start, quote] with one-based indices
TitleMatch(s) ==
  LET hits == { i \in 1..Len(s) : TitleMatchAt(s, i) # 0 }
  IN  IF hits = {} THEN [found |-> FALSE, start |-> 0, quote |-> 0]
      ELSE LET i == CHOOSE h \in hits : \A j \in hits : h <= j
           IN  [found |-> TRUE, start |-> i, quote |-> TitleMatchAt(s, i)]

\* buffer.replace(titleMatch[0], '')
RemoveTitleMatch(s, m) ==
  SubSeq(s, 1, m.start - 1) \o SubSeq(s, m.quote + 2, Len(s))

\* the layout tags of the Slide interface
LayoutTags ==
  { "title_only", "title_content", "content_only", "image_left", "image_right",
    "quote", "comparison", "timeline", "process_steps", "key_facts",
    "case_study", "examples", "use_cases", "benefits", "challenges" }

(***************************************************************************)
(* JSON.parse(slideContent) and the construction of the Slide              *)
(***************************************************************************)
\* the text is an object: an opening field, continuation fields, a brace
JsonParses(c) ==
  /\ Len(c) >= 2
  /\ c[1] \in OpenPieces
  /\ c[Len(c)] = "}"
  /\ \A i \in 2..(Len(c) - 1) : c[i] \in ContPieces

\* the last field of the text with key k among the fields of table t
LastField(c, t, k) ==
  LET idx == { i \in 1..Len(c) : \E f \in t : Piece(f) = c[i] /\ f[2] = k }
  IN  IF idx = {} THEN <<>>
      ELSE LET i == CHOOSE x \in idx : \A y \in idx : y <= x
           IN  << (CHOOSE f \in t : Piece(f) = c[i])[3] >>

\* slideData.<k> for a string-valued key: <<>> is undefined or null, else
\* <<value>>
StringProp(c, k) == LastField(c, OpenFields \cup ContFields, k)

\* slideData.<k> for an array-valued key
ArrayProp(c, k) == LastField(c, ArrayFields, k)

\* slideData.<k> is truthy
Truthy(c, k) == StringProp(c, k) # <<>> /\ StringProp(c, k)[1] # ""

\* the value of a property that was never assigned
Undefined == "undefined"

StringOrEmptyKeepsUndefined(c, k) ==
  IF StringProp(c, k) # <<>> THEN StringProp(c, k)[1] ELSE Undefined

\* slideData.<k> || ''
StringOrEmpty(c, k) == IF Truthy(c, k) THEN StringProp(c, k)[1] ELSE ""

\* slideData.<k> || []
ArrayOrEmpty(c, k) == IF ArrayProp(c, k) # <<>> THEN ArrayProp(c, k)[1] ELSE <<>>

ValidSlideDataNoLayoutCheck(c) == Truthy(c, "title") /\ Truthy(c, "content")

ValidSlideDataNoTitleCheck(c) == Truthy(c, "content") /\ Truthy(c, "layout")

\* if (slideData.title && slideData.content && slideData.layout)
ValidSlideData(c) == Truthy(c, "title") /\ Truthy(c, "content") /\ Truthy(c, "layout")

\* const slide: Slide = { ... }
MakeSlide(c) ==
  [ title |-> StringProp(c, "title")[1],
    content |-> StringProp(c, "content")[1],
    layout |-> StringProp(c, "layout")[1],
    image_prompt |-> StringOrEmpty(c, "image_prompt"),
    speaker_notes |-> StringOrEmpty(c, "speaker_notes"),
    subtitle |-> StringOrEmpty(c, "subtitle"),
    keyPoints |-> ArrayOrEmpty(c, "keyPoints"),
    examples |-> ArrayOrEmpty(c, "examples"),
    statistics |-> StringOrEmpty(c, "statistics") ]

(***************************************************************************)
(* The raw outputs the source can deliver                                  *)
(***************************************************************************)
TitleObject == <<TitleOpen, " ", "\"Topic A\"", "}">>

Record(body) == SLIDE_START_DELIMITER \o body \o SLIDE_END_DELIMITER

RecordT1 ==
  Record(<<"\n", "{\"title\":\"T1\"", ",\"content\":\"C1\"",
           ",\"layout\":\"title_content\"", ",\"image_prompt\":\"\"",
           ",\"speaker_notes\":\"N1\"", "}", "\n">>)

RecordT2 ==
  Record(<<"\n", "{\"title\":\"T2\"", ",\"content\":\"C2\"",
           ",\"layout\":\"quote\"", "}", "\n">>)

\* a record whose object is never closed: JSON.parse throws
RecordBroken == Record(<<"{\"title\":\"T1\"", ",\"content\":\"C2\"">>)

\* a record that parses but has a falsy title
RecordInvalid ==
  Record(<<"{\"title\":\"\"", ",\"content\":\"C1\"", ",\"layout\":\"quote\"", "}">>)

\* a record with optional fields that are null
RecordNulls ==
  Record(<<"{\"title\":\"T1\"", ",\"content\":\"C2\"", ",\"layout\":\"quote\"",
           ",\"subtitle\":null", ",\"keyPoints\":null", "}">>)

\* a record that parses but has a falsy layout
RecordNoLayout ==
  Record(<<"{\"title\":\"T2\"", ",\"content\":\"C1\"", ",\"layout\":\"\"", "}">>)

\* a record whose layout is a string outside the layout tags of Slide
RecordFreeform ==
  Record(<<"{\"title\":\"T1\"", ",\"content\":\"C1\"", ",\"layout\":\"freeform\"", "}">>)

\* the piece of table t that gives key k the value v
FieldPiece(t, k, v) == Piece(CHOOSE f \in t : f[2] = k /\ f[3] = v)

\* the truthy values of title, content and layout
RequiredValues ==
  [title : {"T1", "T2"}, content : {"C1", "C2"}, layout : {"title_content", "quote"}]

RequiredPieces(r) ==
  << FieldPiece(OpenFields, "title", r.title),
     FieldPiece(ContFields, "content", r.content),
     FieldPiece(ContFields, "layout", r.layout) >>

\* a record with the required fields only
RecordBare(r) == Record(RequiredPieces(r) \o <<"}">>)

\* the same record with every optional field set to '' or []
RecordExplicit(r) ==
  Record(RequiredPieces(r) \o
         <<",\"image_prompt\":\"\"", ",\"speaker_notes\":\"\"", ",\"subtitle\":\"\"",
           ",\"keyPoints\":[]", ",\"examples\":[]", ",\"statistics\":\"\"", "}">>)

GoodRecords == {RecordT1, RecordT2}
BadRecords == {RecordBroken, RecordInvalid}

Segments ==
  {TitleObject, RecordT1, RecordT2, RecordBroken, RecordInvalid,
   PRESENTATION_COMPLETE_DELIMITER, SLIDE_END_DELIMITER}

RECURSIVE Flatten(_)
Flatten(ss) == IF ss = <<>> THEN <<>> ELSE Head(ss) \o Flatten(Tail(ss))

\* the four chunks of the concrete scenario, concatenated
ScenarioText ==
  Flatten(<<TitleObject, RecordT1, RecordT2, PRESENTATION_COMPLETE_DELIMITER>>)

\* a title, then one bad record between two well-formed ones
IsolationTexts ==
  { Flatten(<<TitleObject, g1, b, g2>>) :
      g1 \in GoodRecords, b \in BadRecords, g2 \in GoodRecords }

TitleObjectB == <<TitleOpen, "\"Topic B\"", "}">>

\* the required values of two slides
RequiredT1 == [title |-> "T1", content |-> "C1", layout |-> "title_content"]
RequiredT2 == [title |-> "T2", content |-> "C2", layout |-> "quote"]

\* the outputs of two requests: a title and one record, the first with the
\* terminal marker and the other without it
FirstText ==
  Flatten(<<TitleObject, RecordBare(RequiredT1), PRESENTATION_COMPLETE_DELIMITER>>)
OtherText == Flatten(<<TitleObjectB, RecordBare(RequiredT2)>>)

\* a record with an image prompt and speaker notes
RecordAssets ==
  Record(<<"{\"title\":\"T1\"", ",\"content\":\"C1\"", ",\"layout\":\"title_content\"",
           ",\"image_prompt\":\"P1\"", ",\"speaker_notes\":\"N1\"", "}">>)

\* a title, the record with assets, the terminal marker
AssetText ==
  Flatten(<<TitleObject, RecordAssets, PRESENTATION_COMPLETE_DELIMITER>>)

\* a second title object, with another title, between two records
TwoTitlesText ==
  Flatten(<<TitleObject, RecordT2, TitleObjectB, RecordT1,
            PRESENTATION_COMPLETE_DELIMITER>>)

\* a title, a record without its end marker, and two records
MissingEndText ==
  Flatten(<<TitleObject,
            SLIDE_START_DELIMITER \o RequiredPieces(RequiredT1) \o <<"}">>,
            RecordBare(RequiredT2), RecordBare(RequiredT1)>>)

\* a title, a record with a layout outside the tags, the terminal marker
LayoutText ==
  Flatten(<<TitleObject, RecordFreeform, PRESENTATION_COMPLETE_DELIMITER>>)

\* a record with and without its optional fields
DefaultingTexts ==
  { RecordBare(r) : r \in RequiredValues } \cup { RecordExplicit(r) : r \in RequiredValues }

\* null fields and a falsy layout among well-formed records
PopulationText ==
  Flatten(<<TitleObject, RecordNulls, RecordNoLayout, RecordT1,
            PRESENTATION_COMPLETE_DELIMITER>>)

Texts ==
  { Flatten(ss) : ss \in UNION { [1..n -> Segments] : n \in 0..MaxSegs } }
    \cup {ScenarioText} \cup IsolationTexts \cup DefaultingTexts
    \cup {PopulationText, FirstText, OtherText, LayoutText, TwoTitlesText,
          MissingEndText}

(***************************************************************************)
(* generateSlidesStream                                                    *)
(***************************************************************************)
\* a yielded value; shared tells that its slides are the live array of
\* the generator and not a copy of it
Snapshot(t, s, c, shared) ==
  [main_title |-> t, slides |-> s, isComplete |-> c, shared |-> shared]

\* yield { main_title: mainTitle, slides: [], isComplete: false }
TitleSnapshot(t) == Snapshot(t, <<>>, FALSE, FALSE)

SlideSnapshotShared(t, s) == Snapshot(t, s, FALSE, TRUE)

\* yield { main_title: mainTitle, slides: [...slides], isComplete: false }
SlideSnapshot(t, s) == Snapshot(t, s, FALSE, FALSE)

FinalSnapshotNotComplete(t, s) == Snapshot(t, s, FALSE, TRUE)

\* const finalPresentation = { main_title: mainTitle, slides, isComplete: true }
FinalSnapshot(t, s) == Snapshot(t, s, TRUE, TRUE)

AppendChunkDropsBuffer(b, chunk) == chunk

\* buffer += text
AppendChunk(b, chunk) == b \o chunk

\* the chunk that ends at piece p of t ends inside a marker token
EndsInMarker(t, p) ==
  /\ p >= 1
  /\ p < Len(t)
  /\ t[p] \in {SLIDE_START_DELIMITER[1], SLIDE_END_DELIMITER[1],
               PRESENTATION_COMPLETE_DELIMITER[1]}
  /\ t[p + 1] = "DELIMITER"

\* the state after the declarations, waiting for the first chunk of t
GenStart(t) ==
  /\ text' = t
  /\ pos' = 0
  /\ buffer' = <<>>
  /\ mainTitle' = ""
  /\ slides' = <<>>
  /\ isComplete' = FALSE
  /\ slideIndex' = 0
  /\ titleYielded' = FALSE
  /\ pc' = "await"
  /\ emitted' = <<>>
  /\ calls' = <<>>
  /\ genError' = "none"
  /\ cutInMarker' = FALSE
  /\ chunksSinceTitle' = 0

\* the same state, as an initial state
GenInit ==
  /\ text \in Texts
  /\ pos = 0
  /\ buffer = <<>>
  /\ mainTitle = ""
  /\ slides = <<>>
  /\ isComplete = FALSE
  /\ slideIndex = 0
  /\ titleYielded = FALSE
  /\ pc = "await"
  /\ emitted = <<>>
  /\ calls = <<>>
  /\ genError = "none"
  /\ cutInMarker = FALSE
  /\ chunksSinceTitle = 0

\* buffer after "buffer += text" and the title block
BufferAfterTitle(b, title) ==
  IF title = "" /\ Includes(b, <<TitleOpen>>) /\ TitleMatch(b).found
  THEN RemoveTitleMatch(b, TitleMatch(b)) ELSE b

TitleAfterTitleReplaces(b, title) ==
  IF Includes(b, <<TitleOpen>>) /\ TitleMatch(b).found
  THEN QuotedStrings[b[TitleMatch(b).quote]] ELSE title

TitleAfterTitleWholeQuote(b, title) ==
  IF title = "" /\ Includes(b, <<TitleOpen>>) /\ TitleMatch(b).found
  THEN b[TitleMatch(b).quote] ELSE title

\* mainTitle after the title block
TitleAfterTitle(b, title) ==
  IF title = "" /\ Includes(b, <<TitleOpen>>) /\ TitleMatch(b).found
  THEN QuotedStrings[b[TitleMatch(b).quote]] ELSE title

YieldsTitleNoLatch(title, yielded, s) == title # "" /\ Len(s) = 0

YieldsTitleNever(title, yielded, s) == title # "" /\ yielded /\ Len(s) = 0

\* if (mainTitle && !titleYielded && slides.length === 0)
YieldsTitle(title, yielded, s) == title # "" /\ ~yielded /\ Len(s) = 0

\* the loop pulls a chunk of n pieces, appends it, parses the title and
\* yields the title-only snapshot when it is due
ReceiveChunk ==
  /\ pc = "await"
  /\ pos < Len(text)
  /\ \E n \in 1..(Len(text) - pos) :
       LET b == AppendChunk(buffer, SubSeq(text, pos + 1, pos + n))
           t == TitleAfterTitle(b, mainTitle)
       IN  /\ pos' = pos + n
           /\ cutInMarker' = (cutInMarker \/ EndsInMarker(text, pos + n))
           /\ chunksSinceTitle' =
                IF titleYielded /\ Len(slides) = 0 /\ chunksSinceTitle < 2
                THEN chunksSinceTitle + 1 ELSE chunksSinceTitle
           /\ buffer' = BufferAfterTitle(b, mainTitle)
           /\ mainTitle' = t
           /\ IF YieldsTitle(t, titleYielded, slides)
              THEN /\ titleYielded' = TRUE
                   /\ emitted' = Append(emitted, TitleSnapshot(t))
                   /\ pc' = "yieldTitle"
              ELSE /\ pc' = "extract"
                   /\ UNCHANGED <<titleYielded, emitted>>
  /\ UNCHANGED <<text, slides, isComplete, slideIndex, calls, genError>>

\* the generator is resumed after the title-only snapshot
ResumeTitle ==
  /\ pc = "yieldTitle"
  /\ pc' = "extract"
  /\ UNCHANGED <<text, pos, buffer, mainTitle, slides, isComplete, slideIndex,
                 titleYielded, emitted, calls, genError, cutInMarker,
                 chunksSinceTitle>>

\* the condition of the while loop
BothMarkers(b) ==
  Includes(b, SLIDE_START_DELIMITER) /\ Includes(b, SLIDE_END_DELIMITER)

startIndexNearest(b) ==
  LET hits == { i \in 0..Len(b) : /\ MatchesAt(b, SLIDE_START_DELIMITER, i)
                                   /\ i < IndexOf(b, SLIDE_END_DELIMITER) }
  IN  IF hits = {} THEN IndexOf(b, SLIDE_START_DELIMITER)
      ELSE CHOOSE i \in hits : \A j \in hits : j <= i

\* buffer.indexOf('SLIDE_START_DELIMITER')
startIndex(b) == IndexOf(b, SLIDE_START_DELIMITER)
endIndex(b) == IndexOf(b, SLIDE_END_DELIMITER)

slideContentUntrimmed(b) ==
  Substring(b, startIndex(b) + Len(SLIDE_START_DELIMITER), endIndex(b))

\* buffer.substring(startIndex + 'SLIDE_START_DELIMITER'.length, endIndex).trim()
slideContent(b) ==
  Trim(Substring(b, startIndex(b) + Len(SLIDE_START_DELIMITER), endIndex(b)))

AfterEndMarkerKeepsBuffer(b) == b

\* buffer = buffer.substring(endIndex + 'SLIDE_END_DELIMITER'.length)
AfterEndMarker(b) == SubstringFrom(b, endIndex(b) + Len(SLIDE_END_DELIMITER))

RecordReadyAnyOrder(b) == BothMarkers(b)

RecordReadyUnlessComplete(b) ==
  /\ BothMarkers(b)
  /\ startIndex(b) < endIndex(b)
  /\ ~Includes(b, PRESENTATION_COMPLETE_DELIMITER)

\* the while condition holds and if (startIndex < endIndex) holds
RecordReady(b) == BothMarkers(b) /\ startIndex(b) < endIndex(b)

\* the final yield: { main_title, slides, isComplete: true }, the slides
\* being the live array, not a copy
FinalYield ==
  /\ emitted' = Append(emitted, FinalSnapshot(mainTitle, slides))
  /\ pc' = "yieldFinal"

CompletionCheckNoBreak ==
  IF Includes(buffer, PRESENTATION_COMPLETE_DELIMITER)
  THEN /\ isComplete' = TRUE
       /\ pc' = "await"
       /\ UNCHANGED emitted
  ELSE /\ pc' = "await"
       /\ UNCHANGED <<isComplete, emitted>>

\* the completion check that follows the while loop
CompletionCheck ==
  IF Includes(buffer, PRESENTATION_COMPLETE_DELIMITER)
  THEN /\ isComplete' = TRUE
       /\ FinalYield
  ELSE /\ pc' = "await"
       /\ UNCHANGED <<isComplete, emitted>>

CallRecordAfterIncrement(slide, index, s, e) ==
  [slide |-> slide, index |-> index + 1, slidesLength |-> Len(s),
   snapshotsBefore |-> Len(e)]

\* onSlideComplete?.(slide, slideIndex): the arguments of the call, with the
\* length of the slides array s and the number of snapshots e yielded so far
\* at the moment of the call
CallRecord(slide, index, s, e) ==
  [slide |-> slide, index |-> index, slidesLength |-> Len(s),
   snapshotsBefore |-> Len(e)]

\* one evaluation of the while condition and, when it holds, one iteration
\* up to its yield or its end
ExtractStep ==
  /\ pc = "extract"
  /\ IF RecordReady(buffer)
     THEN IF JsonParses(slideContent(buffer)) /\ ValidSlideData(slideContent(buffer))
          THEN LET slide == MakeSlide(slideContent(buffer))
               IN  /\ slides' = Append(slides, slide)
                   /\ calls' = Append(calls,
                        CallRecord(slide, slideIndex, Append(slides, slide), emitted))
                   /\ slideIndex' = slideIndex + 1
                   /\ emitted' = Append(emitted,
                        SlideSnapshot(mainTitle, Append(slides, slide)))
                   /\ pc' = "yieldSlide"
                   /\ UNCHANGED <<buffer, isComplete>>
          ELSE /\ buffer' = AfterEndMarker(buffer)
               /\ UNCHANGED <<slides, calls, slideIndex, emitted, pc, isComplete>>
     ELSE /\ CompletionCheck
          /\ UNCHANGED <<buffer, slides, calls, slideIndex>>
  /\ UNCHANGED <<text, pos, mainTitle, titleYielded, genError, cutInMarker,
                 chunksSinceTitle>>

ResumeSlideNoLoop ==
  /\ pc = "yieldSlide"
  /\ buffer' = AfterEndMarker(buffer)
  /\ pc' = "await"
  /\ UNCHANGED <<text, pos, mainTitle, slides, isComplete, slideIndex,
                 titleYielded, emitted, calls, genError, cutInMarker,
                 chunksSinceTitle>>

\* the generator is resumed after a slide snapshot: the rest of the iteration
ResumeSlide ==
  /\ pc = "yieldSlide"
  /\ buffer' = AfterEndMarker(buffer)
  /\ pc' = "extract"
  /\ UNCHANGED <<text, pos, mainTitle, slides, isComplete, slideIndex,
                 titleYielded, emitted, calls, genError, cutInMarker,
                 chunksSinceTitle>>

SourceExhaustedNoYield ==
  /\ pc = "await"
  /\ pos = Len(text)
  /\ pc' = "done"
  /\ UNCHANGED <<text, pos, buffer, mainTitle, slides, isComplete, slideIndex,
                 titleYielded, calls, genError, cutInMarker, chunksSinceTitle,
                 emitted>>

\* the source has no more chunks: the loop ends without the terminal marker
SourceExhausted ==
  /\ pc = "await"
  /\ pos = Len(text)
  /\ FinalYield
  /\ UNCHANGED <<text, pos, buffer, mainTitle, slides, isComplete, slideIndex,
                 titleYielded, calls, genError, cutInMarker, chunksSinceTitle>>

FailsValidationTitleOnly(title, s) == title = ""

\* if (!mainTitle || slides.length === 0) throw
FailsValidation(title, s) == title = "" \/ Len(s) = 0

\* the generator is resumed after the final snapshot: the basic validation;
\* its error is caught by the outer handler and thrown again
ResumeFinal ==
  /\ pc = "yieldFinal"
  /\ IF FailsValidation(mainTitle, slides)
     THEN pc' = "threw" /\ genError' = "validation"
     ELSE pc' = "done" /\ UNCHANGED genError
  /\ UNCHANGED <<text, pos, buffer, mainTitle, slides, isComplete, slideIndex,
                 titleYielded, emitted, calls, cutInMarker, chunksSinceTitle>>

\* the chunked source fails while the loop waits for a chunk; the outer
\* handler catches the failure and throws its own error
SourceFails ==
  /\ pc = "await"
  /\ pos < Len(text)
  /\ pc' = "threw"
  /\ genError' = "transport"
  /\ UNCHANGED <<text, pos, buffer, mainTitle, slides, isComplete, slideIndex,
                 titleYielded, emitted, calls, cutInMarker, chunksSinceTitle>>

(***************************************************************************)
(* The application component                                               *)
(***************************************************************************)
Topics == {"", "AI"}

ValidationMessage == "Invalid presentation structure received from streaming API."
StreamFailureMessage == "Failed to get a valid streaming response from the AI model."

Idle == [status |-> "idle", currentSlide |-> 0, message |-> ""]
Generating(n) == [status |-> "generating", currentSlide |-> n, message |-> ""]
Complete == [status |-> "complete", currentSlide |-> 0, message |-> ""]
Failed(m) == [status |-> "error", currentSlide |-> 0, message |-> m]

PreloadIdle == [status |-> "idle", images |-> <<0, 0>>, audio |-> <<0, 0>>]
PreloadLoading == [status |-> "loading", images |-> <<0, 0>>, audio |-> <<0, 0>>]

\* the useState initial values
AppInit ==
  /\ topic = ""
  /\ isLoading = FALSE
  /\ error = <<>>
  /\ presentation = <<>>
  /\ partialPresentation = <<>>
  /\ streamingState = Idle
  /\ preloadState = PreloadIdle
  /\ closurePartial = <<>>
  /\ running = FALSE

\* renderContent falls through to the initial form
FormShown ==
  /\ partialPresentation = <<>>
  /\ preloadState.status # "loading"
  /\ ~(presentation # <<>> /\ preloadState.status = "complete")

\* onChange of the textarea; useCallback(..., [topic]) makes a new
\* handleGenerate, closed over the state of this render
SetTopic ==
  /\ FormShown
  /\ ~isLoading
  /\ \E t \in Topics :
       /\ t # topic
       /\ topic' = t
  /\ closurePartial' = partialPresentation
  /\ UNCHANGED <<isLoading, error, presentation, partialPresentation,
                 streamingState, preloadState, running>>
  /\ UNCHANGED genVars
  /\ UNCHANGED twoVars /\ UNCHANGED fetchVars /\ UNCHANGED sessionVars

\* handleGenerate up to the first pull on the stream
HandleGenerate ==
  /\ FormShown
  /\ ~isLoading
  /\ topic # ""
  /\ isLoading' = TRUE
  /\ error' = <<>>
  /\ presentation' = <<>>
  /\ partialPresentation' = <<>>
  /\ preloadState' = PreloadIdle
  /\ streamingState' = Generating(0)
  /\ running' = TRUE
  /\ \E t \in Texts : GenStart(t)
  /\ UNCHANGED <<topic, closurePartial>>
  /\ UNCHANGED twoVars /\ UNCHANGED fetchVars /\ UNCHANGED sessionVars

AppReceiveChunk == running /\ ReceiveChunk /\ UNCHANGED appVars /\ UNCHANGED twoVars /\ UNCHANGED fetchVars /\ UNCHANGED sessionVars

AppSourceExhausted == running /\ SourceExhausted /\ UNCHANGED appVars /\ UNCHANGED twoVars /\ UNCHANGED fetchVars /\ UNCHANGED sessionVars

AppSourceFails == running /\ SourceFails /\ UNCHANGED appVars /\ UNCHANGED twoVars /\ UNCHANGED fetchVars /\ UNCHANGED sessionVars

\* the while loop inside handleGenerate's stream; a slide that is appended
\* goes through handleSlideComplete before it is yielded
AppExtractStep ==
  /\ running
  /\ ExtractStep
  /\ IF Len(calls') > Len(calls)
     THEN streamingState' = Generating(calls'[Len(calls')].index + 1)
     ELSE UNCHANGED streamingState
  /\ UNCHANGED <<topic, isLoading, error, presentation, partialPresentation,
                 preloadState, closurePartial, running>>
  /\ UNCHANGED twoVars /\ UNCHANGED fetchVars /\ UNCHANGED sessionVars

\* what a consumer reads in snapshot i now: a snapshot that shares the
\* live slide array shows the array as it is now
Observed(i) ==
  IF emitted[i].shared
  THEN [main_title |-> emitted[i].main_title, slides |-> slides,
        isComplete |-> emitted[i].isComplete]
  ELSE [main_title |-> emitted[i].main_title, slides |-> emitted[i].slides,
        isComplete |-> emitted[i].isComplete]

\* one pass of the for-await body on the snapshot just yielded, then either
\* the break (the generator is closed at its yield) or the next pull
ConsumeSnapshot ==
  /\ running
  /\ pc \in {"yieldTitle", "yieldSlide", "yieldFinal"}
  /\ LET partialPres == Observed(Len(emitted))
     IN  /\ partialPresentation' = <<partialPres>>
         /\ IF partialPres.isComplete /\ partialPres.main_title # ""
            THEN /\ presentation' = << [main_title |-> partialPres.main_title,
                                        slides |-> partialPres.slides] >>
                 /\ streamingState' = Complete
                 /\ preloadState' = PreloadLoading
                 /\ pc' = "returned"
                 /\ isLoading' = FALSE
                 /\ running' = FALSE
                 /\ UNCHANGED <<text, pos, buffer, mainTitle, slides, isComplete,
                                slideIndex, titleYielded, emitted, calls, genError,
                                cutInMarker, chunksSinceTitle>>
            ELSE /\ (ResumeTitle \/ ResumeSlide \/ ResumeFinal)
                 /\ IF pc' = "done"
                    THEN isLoading' = FALSE /\ running' = FALSE
                    ELSE UNCHANGED <<isLoading, running>>
                 /\ UNCHANGED <<presentation, streamingState, preloadState>>
  /\ UNCHANGED <<topic, error, closurePartial>>
  /\ UNCHANGED twoVars /\ UNCHANGED fetchVars /\ UNCHANGED sessionVars

\* the catch block and the finally block of handleGenerate
HandleFailure ==
  /\ running
  /\ pc = "threw"
  /\ IF closurePartial # <<>> /\ Len(closurePartial[1].slides) > 0
     THEN /\ presentation' =
               << [main_title |-> IF closurePartial[1].main_title # ""
                                  THEN closurePartial[1].main_title
                                  ELSE "Presentation (Partial)",
                   slides |-> closurePartial[1].slides] >>
          /\ streamingState' = Complete
          /\ preloadState' = PreloadLoading
          /\ UNCHANGED error
     ELSE /\ error' = <<"Failed to generate presentation: " \o StreamFailureMessage>>
          /\ streamingState' = Failed(StreamFailureMessage)
          /\ UNCHANGED <<presentation, preloadState>>
  /\ isLoading' = FALSE
  /\ running' = FALSE
  /\ UNCHANGED <<topic, partialPresentation, closurePartial>>
  /\ UNCHANGED genVars
  /\ UNCHANGED twoVars /\ UNCHANGED fetchVars /\ UNCHANGED sessionVars

(***************************************************************************)
(* The generator driven by a consumer that takes every snapshot            *)
(***************************************************************************)
\* no call of fetchImageFromInternet is followed
NoFetch == imageFetch = <<>>

\* no second generator
Alone == other = <<>> /\ interleaved = FALSE

\* no request yet, empty caches, nothing in flight
SessionInit ==
  /\ requestId = 0
  /\ imageCache = {}
  /\ audioCache = {}
  /\ fetches = {}
  /\ preloads = {}
  /\ abandoned = FALSE

Init == GenInit /\ AppInit /\ Alone /\ SessionInit /\ NoFetch

StreamReceiveChunk == ReceiveChunk /\ UNCHANGED appVars /\ UNCHANGED twoVars /\ UNCHANGED fetchVars /\ UNCHANGED sessionVars
StreamResumeTitle == ResumeTitle /\ UNCHANGED appVars /\ UNCHANGED twoVars /\ UNCHANGED fetchVars /\ UNCHANGED sessionVars
StreamExtractStep == ExtractStep /\ UNCHANGED appVars /\ UNCHANGED twoVars /\ UNCHANGED fetchVars /\ UNCHANGED sessionVars
StreamResumeSlide == ResumeSlide /\ UNCHANGED appVars /\ UNCHANGED twoVars /\ UNCHANGED fetchVars /\ UNCHANGED sessionVars
StreamSourceExhausted == SourceExhausted /\ UNCHANGED appVars /\ UNCHANGED twoVars /\ UNCHANGED fetchVars /\ UNCHANGED sessionVars
StreamResumeFinal == ResumeFinal /\ UNCHANGED appVars /\ UNCHANGED twoVars /\ UNCHANGED fetchVars /\ UNCHANGED sessionVars
StreamSourceFails == SourceFails /\ UNCHANGED appVars /\ UNCHANGED twoVars /\ UNCHANGED fetchVars /\ UNCHANGED sessionVars

Next ==
  \/ StreamReceiveChunk
  \/ StreamResumeTitle
  \/ StreamExtractStep
  \/ StreamResumeSlide
  \/ StreamSourceExhausted
  \/ StreamResumeFinal
  \/ StreamSourceFails

Spec == Init /\ [][Next]_vars

(***************************************************************************)
(* The generator driven by handleGenerate                                  *)
(***************************************************************************)
InitApp ==
  /\ AppInit
  /\ Alone
  /\ SessionInit
  /\ NoFetch
  /\ text = <<>>
  /\ pos = 0
  /\ buffer = <<>>
  /\ mainTitle = ""
  /\ slides = <<>>
  /\ isComplete = FALSE
  /\ slideIndex = 0
  /\ titleYielded = FALSE
  /\ pc = "idle"
  /\ emitted = <<>>
  /\ calls = <<>>
  /\ genError = "none"
  /\ cutInMarker = FALSE
  /\ chunksSinceTitle = 0

NextApp ==
  \/ SetTopic
  \/ HandleGenerate
  \/ AppReceiveChunk
  \/ AppExtractStep
  \/ AppSourceExhausted
  \/ AppSourceFails
  \/ ConsumeSnapshot
  \/ HandleFailure

SpecApp == InitApp /\ [][NextApp]_vars

(***************************************************************************)
(* Two generators whose steps interleave                                   *)
(***************************************************************************)
\* the outputs of the two requests
TwoTexts == {FirstText, OtherText}

\* the local variables of the running generator
Locals ==
  [ text |-> text, pos |-> pos, buffer |-> buffer, mainTitle |-> mainTitle,
    slides |-> slides, isComplete |-> isComplete, slideIndex |-> slideIndex,
    titleYielded |-> titleYielded, pc |-> pc, emitted |-> emitted,
    calls |-> calls, genError |-> genError, cutInMarker |-> cutInMarker,
    chunksSinceTitle |-> chunksSinceTitle ]

\* the local variables of a generator after its declarations
StartLocals(t) ==
  [ text |-> t, pos |-> 0, buffer |-> <<>>, mainTitle |-> "",
    slides |-> <<>>, isComplete |-> FALSE, slideIndex |-> 0,
    titleYielded |-> FALSE, pc |-> "await", emitted |-> <<>>,
    calls |-> <<>>, genError |-> "none", cutInMarker |-> FALSE,
    chunksSinceTitle |-> 0 ]

SuspendedBufferShared(f, b) == b

\* the buffer a generator with locals f finds when it is resumed, b being
\* the buffer of the generator that ran meanwhile: buffer is declared
\* inside the function, each call has its own
SuspendedBuffer(f, b) == f.buffer

\* the running generator is suspended at an await or a yield, or has ended,
\* and the other one, which has not ended, is resumed
Switch ==
  /\ other # <<>>
  /\ pc # "extract"
  /\ other[1].pc \notin {"done", "threw"}
  /\ text' = other[1].text
  /\ pos' = other[1].pos
  /\ buffer' = SuspendedBuffer(other[1], buffer)
  /\ mainTitle' = other[1].mainTitle
  /\ slides' = other[1].slides
  /\ isComplete' = other[1].isComplete
  /\ slideIndex' = other[1].slideIndex
  /\ titleYielded' = other[1].titleYielded
  /\ pc' = other[1].pc
  /\ emitted' = other[1].emitted
  /\ calls' = other[1].calls
  /\ genError' = other[1].genError
  /\ cutInMarker' = other[1].cutInMarker
  /\ chunksSinceTitle' = other[1].chunksSinceTitle
  /\ other' = <<Locals>>
  /\ interleaved' = (interleaved \/ (pos > 0 /\ other[1].pos > 0))
  /\ UNCHANGED appVars
  /\ UNCHANGED sessionVars
  /\ UNCHANGED fetchVars

InitTwo ==
  /\ GenInit
  /\ text \in TwoTexts
  /\ AppInit
  /\ other \in { <<StartLocals(t)>> : t \in TwoTexts }
  /\ interleaved = FALSE
  /\ SessionInit
  /\ NoFetch

NextTwo ==
  \/ StreamReceiveChunk
  \/ StreamResumeTitle
  \/ StreamExtractStep
  \/ StreamResumeSlide
  \/ StreamSourceExhausted
  \/ StreamResumeFinal
  \/ StreamSourceFails
  \/ Switch

SpecTwo == InitTwo /\ [][NextTwo]_vars

(***************************************************************************)
(* The generator with a per-slide callback that may throw                  *)
(***************************************************************************)
ExtractStepCallbackThrowsPropagates ==
  /\ pc = "extract"
  /\ RecordReady(buffer)
  /\ JsonParses(slideContent(buffer)) /\ ValidSlideData(slideContent(buffer))
  /\ LET slide == MakeSlide(slideContent(buffer))
     IN  /\ slides' = Append(slides, slide)
         /\ calls' = Append(calls,
              CallRecord(slide, slideIndex, Append(slides, slide), emitted))
  /\ pc' = "threw"
  /\ genError' = "transport"
  /\ UNCHANGED <<text, pos, buffer, mainTitle, isComplete, slideIndex,
                 titleYielded, emitted, cutInMarker, chunksSinceTitle>>

\* an iteration of the while loop in which onSlideComplete throws: the slide
\* has been pushed, the catch of the iteration takes the exception, the
\* increment and the yield are skipped, and the buffer is cut as usual
ExtractStepCallbackThrows ==
  /\ pc = "extract"
  /\ RecordReady(buffer)
  /\ JsonParses(slideContent(buffer)) /\ ValidSlideData(slideContent(buffer))
  /\ LET slide == MakeSlide(slideContent(buffer))
     IN  /\ slides' = Append(slides, slide)
         /\ calls' = Append(calls,
              CallRecord(slide, slideIndex, Append(slides, slide), emitted))
  /\ buffer' = AfterEndMarker(buffer)
  /\ UNCHANGED <<text, pos, mainTitle, isComplete, slideIndex, titleYielded,
                 pc, emitted, genError, cutInMarker, chunksSinceTitle>>

StreamCallbackThrows ==
  ExtractStepCallbackThrows /\ UNCHANGED appVars /\ UNCHANGED twoVars /\ UNCHANGED fetchVars /\ UNCHANGED sessionVars

NextCallback ==
  \/ StreamReceiveChunk
  \/ StreamResumeTitle
  \/ StreamExtractStep
  \/ StreamResumeSlide
  \/ StreamSourceExhausted
  \/ StreamResumeFinal
  \/ StreamSourceFails
  \/ StreamCallbackThrows

\* the responses whose records reach the callback, well-formed or not
CallbackTexts ==
  {ScenarioText, PopulationText, FirstText, OtherText, LayoutText, TwoTitlesText,
   MissingEndText} \cup IsolationTexts \cup DefaultingTexts

InitCallback == Init /\ text \in CallbackTexts

SpecCallback == InitCallback /\ [][NextCallback]_vars

(***************************************************************************)
(* A session of the application: generations, Start Over, asset fetches    *)
(***************************************************************************)
\* the outputs of the requests of a session
SessionTexts == {AssetText, OtherText}

PreloadComplete == [status |-> "complete", images |-> <<0, 0>>, audio |-> <<0, 0>>]

\* a prompt that is worth a fetch
IsPrompt(p) == p # "" /\ p # "null"

\* [...new Set(imagePrompts)]
ImagePrompts(sl) ==
  { sl[i].image_prompt : i \in { j \in 1..Len(sl) : IsPrompt(sl[j].image_prompt) } }

RECURSIVE SpeakerNotes(_)
\* slides.map(s => s.speaker_notes).filter(n => !!n)
SpeakerNotes(sl) ==
  IF sl = <<>> THEN <<>>
  ELSE IF Head(sl).speaker_notes # ""
       THEN <<Head(sl).speaker_notes>> \o SpeakerNotes(Tail(sl))
       ELSE SpeakerNotes(Tail(sl))

\* a fetch in flight: the cache it ends in, its key, the request it was
\* started for, and whether preloadAssets started it
Fetch(c, k, r, p) == [cache |-> c, key |-> k, request |-> r, preload |-> p]

\* the fetches handleSlideComplete starts for a slide
Prefetches(slide, r) ==
  (IF IsPrompt(slide.image_prompt)
   THEN {Fetch("image", slide.image_prompt, r, FALSE)} ELSE {})
  \cup
  (IF slide.speaker_notes # ""
   THEN {Fetch("audio", slide.speaker_notes, r, FALSE)} ELSE {})

\* cache.set(k, value), the value being that of request r
CacheSet(cache, k, r) == { e \in cache : e[1] # k } \cup { <<k, r>> }

\* handleGenerate up to the first pull on the stream, caches included
SessionGenerate ==
  /\ FormShown
  /\ ~isLoading
  /\ topic # ""
  /\ requestId < MaxRequests
  /\ isLoading' = TRUE
  /\ error' = <<>>
  /\ presentation' = <<>>
  /\ partialPresentation' = <<>>
  /\ preloadState' = PreloadIdle
  /\ streamingState' = Generating(0)
  /\ imageCache' = {}
  /\ audioCache' = {}
  /\ running' = TRUE
  /\ requestId' = requestId + 1
  /\ abandoned' = FALSE
  /\ \E t \in SessionTexts : GenStart(t)
  /\ UNCHANGED <<topic, closurePartial, fetches, preloads>>
  /\ UNCHANGED twoVars /\ UNCHANGED fetchVars

\* the while loop inside handleGenerate's stream; handleSlideComplete sets
\* the streaming state and starts the fetches of the slide
SessionExtractStep ==
  /\ running
  /\ ExtractStep
  /\ IF Len(calls') > Len(calls)
     THEN /\ streamingState' = Generating(calls'[Len(calls')].index + 1)
          /\ fetches' = fetches \cup Prefetches(calls'[Len(calls')].slide, requestId)
     ELSE UNCHANGED <<streamingState, fetches>>
  /\ UNCHANGED <<topic, isLoading, error, presentation, partialPresentation,
                 preloadState, closurePartial, running>>
  /\ UNCHANGED <<requestId, imageCache, audioCache, preloads, abandoned>>
  /\ UNCHANGED twoVars /\ UNCHANGED fetchVars

\* the state preloadAssets sets before its first fetch
PreloadTotals(sl) ==
  [status |-> "loading", images |-> <<0, Cardinality(ImagePrompts(sl))>>,
   audio |-> <<0, Len(SpeakerNotes(sl))>>]

\* one pass of the for-await body on the snapshot just yielded; on the
\* complete snapshot the break and the finally block follow, and the render
\* that shows the presentation runs the effect, which calls preloadAssets:
\* it sets the totals and starts the image fetches
SessionConsumeSnapshot ==
  /\ running
  /\ pc \in {"yieldTitle", "yieldSlide", "yieldFinal"}
  /\ LET partialPres == Observed(Len(emitted))
     IN  /\ partialPresentation' = <<partialPres>>
         /\ IF partialPres.isComplete /\ partialPres.main_title # ""
            THEN /\ presentation' = << [main_title |-> partialPres.main_title,
                                        slides |-> partialPres.slides] >>
                 /\ streamingState' = Complete
                 /\ preloadState' = PreloadTotals(partialPres.slides)
                 /\ fetches' = fetches \cup
                      { Fetch("image", k, requestId, TRUE) :
                          k \in ImagePrompts(partialPres.slides) }
                 /\ preloads' = preloads \cup
                      { [request |-> requestId,
                         notes |-> SpeakerNotes(partialPres.slides)] }
                 /\ pc' = "returned"
                 /\ isLoading' = FALSE
                 /\ running' = FALSE
                 /\ UNCHANGED <<text, pos, buffer, mainTitle, slides, isComplete,
                                slideIndex, titleYielded, emitted, calls, genError,
                                cutInMarker, chunksSinceTitle>>
            ELSE /\ (ResumeTitle \/ ResumeSlide \/ ResumeFinal)
                 /\ IF pc' = "done"
                    THEN isLoading' = FALSE /\ running' = FALSE
                    ELSE UNCHANGED <<isLoading, running>>
                 /\ UNCHANGED <<presentation, streamingState, preloadState,
                                fetches, preloads>>
  /\ UNCHANGED <<topic, error, closurePartial>>
  /\ UNCHANGED <<requestId, imageCache, audioCache, abandoned>>
  /\ UNCHANGED twoVars /\ UNCHANGED fetchVars

\* a viewer with the Start Over button is on the screen
ViewerShown ==
  \/ partialPresentation # <<>>
  \/ /\ preloadState.status = "complete"
     /\ presentation # <<>>

\* handleStartOver; the generation in progress, the fetches in flight and
\* the invocations of preloadAssets go on
HandleStartOver ==
  /\ ViewerShown
  /\ presentation' = <<>>
  /\ partialPresentation' = <<>>
  /\ topic' = ""
  /\ error' = <<>>
  /\ preloadState' = PreloadIdle
  /\ streamingState' = Idle
  /\ imageCache' = {}
  /\ audioCache' = {}
  /\ closurePartial' = <<>>
  /\ abandoned' = running
  /\ UNCHANGED <<isLoading, running, requestId, fetches, preloads>>
  /\ UNCHANGED genVars
  /\ UNCHANGED twoVars /\ UNCHANGED fetchVars

\* setPreloadState(prev => ...) after a fetch of preloadAssets: i is 1 for
\* images and 2 for audio
CountLoaded(prev, i) ==
  IF prev.status # "loading" THEN prev
  ELSE IF i = 1
       THEN [prev EXCEPT !.images = <<prev.images[1] + 1, prev.images[2]>>]
       ELSE [prev EXCEPT !.audio = <<prev.audio[1] + 1, prev.audio[2]>>]

\* a fetch started by handleSlideComplete resolves, and its then-callback
\* stores the result, or is rejected
PrefetchSettles ==
  /\ \E f \in fetches :
       /\ ~f.preload
       /\ fetches' = fetches \ {f}
       /\ \E ok \in BOOLEAN :
            IF ok /\ f.cache = "image"
            THEN imageCache' = CacheSet(imageCache, f.key, f.request)
                 /\ UNCHANGED audioCache
            ELSE IF ok
                 THEN audioCache' = CacheSet(audioCache, f.key, f.request)
                      /\ UNCHANGED imageCache
                 ELSE UNCHANGED <<imageCache, audioCache>>
  /\ UNCHANGED <<requestId, preloads, abandoned>>
  /\ UNCHANGED <<genVars, appVars, twoVars, fetchVars>>

\* an image fetch of preloadAssets resolves or is rejected
PreloadImageSettles ==
  /\ \E f \in fetches :
       /\ f.preload
       /\ fetches' = fetches \ {f}
       /\ \E ok \in BOOLEAN :
            IF ok
            THEN /\ imageCache' = CacheSet(imageCache, f.key, f.request)
                 /\ preloadState' = CountLoaded(preloadState, 1)
            ELSE UNCHANGED <<imageCache, preloadState>>
  /\ UNCHANGED <<topic, isLoading, error, presentation, partialPresentation,
                 streamingState, closurePartial, running>>
  /\ UNCHANGED <<requestId, audioCache, preloads, abandoned>>
  /\ UNCHANGED <<genVars, twoVars, fetchVars>>

\* the image fetches of the invocation for request r have all settled
ImagesSettled(r) == \A f \in fetches : ~(f.preload /\ f.request = r)

\* one iteration of the audio loop of preloadAssets
PreloadAudioSettles ==
  /\ \E p \in preloads :
       /\ ImagesSettled(p.request)
       /\ p.notes # <<>>
       /\ preloads' = (preloads \ {p}) \cup {[p EXCEPT !.notes = Tail(p.notes)]}
       /\ \E ok \in BOOLEAN :
            IF ok
            THEN /\ audioCache' = CacheSet(audioCache, Head(p.notes), p.request)
                 /\ preloadState' = CountLoaded(preloadState, 2)
            ELSE UNCHANGED <<audioCache, preloadState>>
  /\ UNCHANGED <<topic, isLoading, error, presentation, partialPresentation,
                 streamingState, closurePartial, running>>
  /\ UNCHANGED <<requestId, imageCache, fetches, abandoned>>
  /\ UNCHANGED <<genVars, twoVars, fetchVars>>

\* the end of preloadAssets: setPreloadState({ status: 'complete' })
PreloadReturns ==
  /\ \E p \in preloads :
       /\ ImagesSettled(p.request)
       /\ p.notes = <<>>
       /\ preloads' = preloads \ {p}
  /\ preloadState' = PreloadComplete
  /\ UNCHANGED <<topic, isLoading, error, presentation, partialPresentation,
                 streamingState, closurePartial, running>>
  /\ UNCHANGED <<requestId, imageCache, audioCache, fetches, abandoned>>
  /\ UNCHANGED <<genVars, twoVars, fetchVars>>

InitSession == InitApp

NextSession ==
  \/ SetTopic
  \/ SessionGenerate
  \/ AppReceiveChunk
  \/ SessionExtractStep
  \/ AppSourceExhausted
  \/ AppSourceFails
  \/ SessionConsumeSnapshot
  \/ HandleFailure
  \/ HandleStartOver
  \/ PrefetchSettles
  \/ PreloadImageSettles
  \/ PreloadAudioSettles
  \/ PreloadReturns

SpecSession == InitSession /\ [][NextSession]_vars

(***************************************************************************)
(* fetchImageFromInternet                                                  *)
(***************************************************************************)
Prompts == {"", "P1"}

\* what an attempt can end in: an image, a status that is not OK, a body
\* without an image for the prompt, a rejected fetch
Outcomes == {"image", "status", "empty", "network"}

\* the generator is not in use
GenIdle ==
  /\ text = <<>>
  /\ pos = 0
  /\ buffer = <<>>
  /\ mainTitle = ""
  /\ slides = <<>>
  /\ isComplete = FALSE
  /\ slideIndex = 0
  /\ titleYielded = FALSE
  /\ pc = "idle"
  /\ emitted = <<>>
  /\ calls = <<>>
  /\ genError = "none"
  /\ cutInMarker = FALSE
  /\ chunksSinceTitle = 0

\* a call fetchImageFromInternet(p, r) with the default delay: given holds
\* the retries of the outermost call, attempts counts the requests sent and
\* log keeps how each of them ended
FetchCall(p, r) ==
  [ prompt |-> p, retries |-> r, delay |-> 500, given |-> r, attempts |-> 0,
    at |-> "entry", log |-> <<>>, message |-> "" ]

InitFetch ==
  /\ GenIdle
  /\ AppInit
  /\ Alone
  /\ SessionInit
  /\ imageFetch \in { <<FetchCall(p, r)>> : p \in Prompts, r \in 0..MaxRetries }

CanRetryOnceMore(r) == r > -1

\* if (retries > 0)
CanRetry(r) == r > 0

\* the error a failed attempt ends in when no retry is left; what the try
\* block throws is caught and wrapped by the catch block
FailureMessage(outcome) ==
  "Failed to fetch a visual for the slide: " \o
    (IF outcome = "status" THEN "Image API failed with status"
     ELSE IF outcome = "empty" THEN "No images found for the prompt."
     ELSE "Failed to fetch")

\* the entry of the outermost call: the prompt test, then the request
FetchEnters ==
  /\ imageFetch # <<>>
  /\ imageFetch[1].at = "entry"
  /\ imageFetch' =
       IF imageFetch[1].prompt = ""
       THEN << [imageFetch[1] EXCEPT !.at = "rejected",
                                     !.message = "Image prompt cannot be empty."] >>
       ELSE << [imageFetch[1] EXCEPT !.at = "pending", !.attempts = @ + 1] >>
  /\ UNCHANGED <<genVars, appVars, twoVars, sessionVars>>

\* the request is answered or fails: the call resolves, or waits for its
\* delay before a retry, or is rejected
FetchSettles ==
  /\ imageFetch # <<>>
  /\ imageFetch[1].at = "pending"
  /\ \E outcome \in Outcomes :
       LET f == [imageFetch[1] EXCEPT !.log = Append(@, outcome)]
       IN  imageFetch' =
             IF outcome = "image" THEN << [f EXCEPT !.at = "resolved"] >>
             ELSE IF CanRetry(f.retries) THEN << [f EXCEPT !.at = "delay"] >>
             ELSE << [f EXCEPT !.at = "rejected",
                               !.message = FailureMessage(outcome)] >>
  /\ UNCHANGED <<genVars, appVars, twoVars, sessionVars>>

\* the timer fires: fetchImageFromInternet(prompt, retries - 1, delay * 2),
\* whose prompt is not empty, sends the next request
FetchRetries ==
  /\ imageFetch # <<>>
  /\ imageFetch[1].at = "delay"
  /\ imageFetch' = << [imageFetch[1] EXCEPT !.retries = @ - 1, !.delay = @ * 2,
                                            !.at = "pending", !.attempts = @ + 1] >>
  /\ UNCHANGED <<genVars, appVars, twoVars, sessionVars>>

NextFetch ==
  \/ FetchEnters
  \/ FetchSettles
  \/ FetchRetries

\* every request is answered or fails, and every timer fires
SpecFetch == InitFetch /\ [][NextFetch]_vars /\ WF_vars(NextFetch)

(***************************************************************************)
(* Properties                                                              *)
(***************************************************************************)
IsPrefix(a, b) == Len(a) <= Len(b) /\ SubSeq(b, 1, Len(a)) = a

\* the final snapshot has been yielded
FinalEmitted == emitted # <<>> /\ emitted[Len(emitted)].isComplete

\* the slides of the final snapshot, as its consumer reads them
FinalSlides == Observed(Len(emitted)).slides

\* the while loop run to its end on buffer b: the slides it appends
RECURSIVE ExtractAll(_)
ExtractAll(b) ==
  IF RecordReady(b)
  THEN (IF JsonParses(slideContent(b)) /\ ValidSlideData(slideContent(b))
        THEN <<MakeSlide(slideContent(b))>> ELSE <<>>)
       \o ExtractAll(AfterEndMarker(b))
  ELSE <<>>

\* the slides of the run that receives the whole of t as its only chunk
SingleChunkSlides(t) == ExtractAll(BufferAfterTitle(t, ""))

\* the terminal marker, if t has one, comes after the end of every
\* well-formed record of t
TerminalAfterRecords(t) ==
  \/ ~Includes(t, PRESENTATION_COMPLETE_DELIMITER)
  \/ \A g \in GoodRecords : \A i \in 0..Len(t) :
       MatchesAt(t, g, i) => i + Len(g) <= IndexOf(t, PRESENTATION_COMPLETE_DELIMITER)

\* C1 (as stated): for every raw output text and every way of splitting it
\* into chunks, the slides of the final snapshot are the slides of the run
\* that receives the whole text as a single chunk.
C1_ChunkInvariance == FinalEmitted => FinalSlides = SingleChunkSlides(text)

\* C1 (amended): the same, for every text whose terminal marker, if any,
\* comes after the end of its last well-formed record.
C1_ChunkInvarianceTerminalLast ==
  (FinalEmitted /\ TerminalAfterRecords(text))
    => FinalSlides = SingleChunkSlides(text)

C1_Witness ==
  /\ FinalEmitted
  /\ TerminalAfterRecords(text)
  /\ Includes(text, PRESENTATION_COMPLETE_DELIMITER)
  /\ cutInMarker
  /\ Len(FinalSlides) = 2

\* the slides that the two well-formed records decode to
SlideT1 ==
  [ title |-> "T1", content |-> "C1", layout |-> "title_content",
    image_prompt |-> "", speaker_notes |-> "N1", subtitle |-> "",
    keyPoints |-> <<>>, examples |-> <<>>, statistics |-> "" ]

SlideT2 ==
  [ title |-> "T2", content |-> "C2", layout |-> "quote",
    image_prompt |-> "", speaker_notes |-> "", subtitle |-> "",
    keyPoints |-> <<>>, examples |-> <<>>, statistics |-> "" ]

SlideOf(g) == IF g = RecordT1 THEN SlideT1 ELSE SlideT2

\* the snapshots that are not final and carry at least one slide
SlideSnapshots == { i \in 1..Len(emitted) :
                      ~emitted[i].isComplete /\ emitted[i].slides # <<>> }

\* C2: a record that fails to parse or fails validation, between two
\* well-formed records, is dropped: the stream yields exactly the two
\* well-formed slides in their order, the bad record gives no snapshot and
\* no callback, and the stream does not end in a validation error.
C2_MalformedIsolation ==
  \A g1 \in GoodRecords, b \in BadRecords, g2 \in GoodRecords :
    text = Flatten(<<TitleObject, g1, b, g2>>) =>
      /\ IsPrefix(slides, <<SlideOf(g1), SlideOf(g2)>>)
      /\ Len(calls) = Len(slides)
      /\ Cardinality(SlideSnapshots) = Len(slides)
      /\ genError # "validation"
      /\ pc \in {"yieldFinal", "done"} =>
           /\ FinalSlides = <<SlideOf(g1), SlideOf(g2)>>
           /\ Len(emitted) = 4

C2_Witness ==
  /\ text \in IsolationTexts
  /\ pc = "done"
  /\ Len(slides) = 2
  /\ cutInMarker

\* the generator is past its chunk loop and has not failed on the source
LoopEnded == pc \in {"yieldFinal", "done", "threw"} /\ genError # "transport"

\* C3: isComplete is false in every snapshot but the last, true in the
\* final snapshot, and after a snapshot with isComplete = true nothing is
\* emitted and no slide is appended.
C3_MonotonicCompletion ==
  /\ [](/\ \A i \in 1..(Len(emitted) - 1) : ~emitted[i].isComplete
        /\ LoopEnded => FinalEmitted)
  /\ [][FinalEmitted => emitted' = emitted /\ slides' = slides]_vars

C3_Witness == pc = "done" /\ FinalEmitted /\ Len(emitted) >= 4

\* C4: the slides of an earlier snapshot are a prefix of the slides of every
\* later one, and a snapshot still shows the slides it was emitted with.
C4_AppendOnly ==
  \A i \in 1..Len(emitted) :
    /\ Observed(i).slides = emitted[i].slides
    /\ \A j \in i..Len(emitted) :
         IsPrefix(Observed(i).slides, Observed(j).slides)

C4_Witness == pc = "yieldSlide" /\ Len(emitted) >= 3 /\ Len(slides) >= 2

\* C5: when the loop ends without the terminal marker having been seen, the
\* final snapshot is there, with isComplete = true and the title and slides
\* accumulated so far.
C5_PrematureTermination ==
  /\ (LoopEnded /\ ~isComplete) =>
       /\ emitted # <<>>
       /\ Observed(Len(emitted)) =
            [main_title |-> mainTitle, slides |-> slides, isComplete |-> TRUE]
  /\ (LoopEnded /\ text = TitleObject \o RecordT1) =>
       Observed(Len(emitted)) =
         [main_title |-> "Topic A", slides |-> <<SlideT1>>, isComplete |-> TRUE]

C5_Witness ==
  /\ pc = "yieldFinal"
  /\ ~isComplete
  /\ pos = Len(text)
  /\ mainTitle # ""
  /\ Len(slides) = 1

CompleteSnapshots == { i \in 1..Len(emitted) : emitted[i].isComplete }

\* C6: once the terminal marker has been found by the completion check, no
\* further chunk is pulled, no slide is appended, and exactly one snapshot
\* with isComplete = true is emitted.
C6_CompletionOnMarker ==
  /\ [](isComplete => FinalEmitted /\ Cardinality(CompleteSnapshots) = 1)
  /\ [][isComplete => pos' = pos /\ slides' = slides /\ emitted' = emitted]_vars

C6_Witness ==
  /\ isComplete
  /\ pc \in {"done", "threw"}
  /\ Len(slides) >= 1
  /\ \E g \in GoodRecords : Includes(SubSeq(text, pos + 1, Len(text)), g)

TitleOnlySnapshots ==
  { i \in 1..Len(emitted) :
      /\ emitted[i].main_title # ""
      /\ emitted[i].slides = <<>>
      /\ ~emitted[i].isComplete }

\* C7: the title-only snapshot is never emitted more than once in a stream.
C7_OneShotTitle == Cardinality(TitleOnlySnapshots) <= 1

C7_Witness ==
  /\ chunksSinceTitle = 2
  /\ Len(slides) >= 1
  /\ Cardinality(TitleOnlySnapshots) = 1

\* C8 (as stated): in every stream in which the title is captured, exactly
\* one title-only snapshot carrying that title has been emitted, wherever
\* the title object stands among the records.
C8_TitleTransition ==
  mainTitle # "" =>
    /\ Cardinality(TitleOnlySnapshots) = 1
    /\ \A i \in TitleOnlySnapshots : emitted[i].main_title = mainTitle

\* C8 (amended): when the title is captured while no slide has been appended
\* yet, the step that captures it emits the title-only snapshot, and that
\* snapshot is the only title-only snapshot of the stream.
C8_TitleTransitionBeforeSlides ==
  /\ [][(mainTitle = "" /\ mainTitle' # "" /\ slides = <<>>) =>
          emitted' = Append(emitted,
            [main_title |-> mainTitle', slides |-> <<>>,
             isComplete |-> FALSE, shared |-> FALSE])]_vars
  /\ []((mainTitle # "" /\ \A i \in SlideSnapshots : emitted[i].main_title # "") =>
          /\ Cardinality(TitleOnlySnapshots) = 1
          /\ \A i \in TitleOnlySnapshots : emitted[i].main_title = mainTitle)

C8_Witness ==
  /\ mainTitle # ""
  /\ text[1] # TitleOpen
  /\ Cardinality(TitleOnlySnapshots) = 1
  /\ Len(slides) >= 1

\* C9: the validation error is raised only after the final snapshot, only
\* when the title is missing or there is no slide, and a stream whose final
\* snapshot has been taken raises it in exactly those cases.
C9_ValidationAfterFinal ==
  /\ genError = "validation" =>
       /\ pc = "threw"
       /\ FinalEmitted
       /\ (mainTitle = "" \/ Len(slides) = 0)
  /\ pc = "yieldFinal" => genError = "none"
  /\ pc = "done" => (FinalEmitted /\ mainTitle # "" /\ Len(slides) > 0)

C9_Witness ==
  /\ pc = "threw"
  /\ genError = "validation"
  /\ mainTitle # ""
  /\ Len(slides) = 0

\* C10: after handleGenerate has consumed a stream that completed with a
\* title and no slide, the application is in the error state and no
\* presentation is installed.
C10_EmptyStreamIsFailure ==
  (/\ ~running
   /\ pc \in {"returned", "done", "threw"}
   /\ genError # "transport"
   /\ FinalEmitted
   /\ mainTitle # ""
   /\ Len(slides) = 0) =>
     /\ streamingState.status = "error"
     /\ error # <<>>
     /\ presentation = <<>>

\* a snapshot with a title or with slides has been delivered to handleGenerate
PartialDelivered ==
  /\ partialPresentation # <<>>
  /\ \/ partialPresentation[1].main_title # ""
     \/ Len(partialPresentation[1].slides) > 0

\* C11: when the chunk source fails after a snapshot with a title or with
\* slides has been delivered to handleGenerate, the application ends with
\* that partial presentation installed and streamingState 'complete', not in
\* the error state.
C11_PartialPreserved ==
  (/\ ~running
   /\ pc = "threw"
   /\ genError = "transport"
   /\ PartialDelivered) =>
     /\ streamingState.status = "complete"
     /\ presentation # <<>>
     /\ presentation[1].slides = partialPresentation[1].slides

\* C12: a stray end-marker at the head of the buffer only defers the
\* extraction: a well-formed record that arrives after it is still
\* extracted, appended and emitted.
C12_StrayEndRecovery ==
  \A g \in GoodRecords :
    (/\ text = SLIDE_END_DELIMITER \o g
     /\ pc = "await"
     /\ pos = Len(text)) =>
       /\ slides = <<SlideOf(g)>>
       /\ Cardinality(SlideSnapshots) = 1

\* the first end-marker of the buffer has no start-marker before it
EndBeforeStart(b) ==
  /\ Includes(b, SLIDE_END_DELIMITER)
  /\ \/ ~Includes(b, SLIDE_START_DELIMITER)
     \/ endIndex(b) < startIndex(b)

\* C13: when the first end-marker is not after the first start-marker, the
\* extraction pass stops at once: no error, no slide, no callback, no
\* snapshot of its own, and the buffer is left as it is.  (The completion
\* check that follows the pass may still yield the final snapshot.)
C13_MisorderedPassStops ==
  [][(pc = "extract" /\ EndBeforeStart(buffer)) =>
       /\ buffer' = buffer
       /\ slides' = slides
       /\ calls' = calls
       /\ genError' = genError
       /\ pc' \in {"await", "yieldFinal"}
       /\ \/ emitted' = emitted
          \/ /\ Includes(buffer, PRESENTATION_COMPLETE_DELIMITER)
             /\ emitted' = Append(emitted,
                  [main_title |-> mainTitle, slides |-> slides,
                   isComplete |-> TRUE, shared |-> TRUE])]_vars

C13_Witness ==
  /\ pc = "await"
  /\ pos > 0
  /\ BothMarkers(buffer)
  /\ endIndex(buffer) < startIndex(buffer)

\* C14: every iteration of the extraction loop either leaves the loop or
\* strictly shortens the buffer, so the loop ends on every buffer.
C14_ExtractionTerminates ==
  /\ [][(pc = "extract" /\ pc' = "extract") => Len(buffer') < Len(buffer)]_vars
  /\ [][pc = "yieldSlide" => (pc' = "extract" /\ Len(buffer') < Len(buffer))]_vars
  /\ [][pc = "extract" => pc' \in {"extract", "yieldSlide", "await", "yieldFinal"}]_vars

C14_Witness ==
  /\ pc = "await"
  /\ pos = Len(text)
  /\ Includes(text, RecordBroken)
  /\ Includes(text, SLIDE_END_DELIMITER \o SLIDE_START_DELIMITER \o <<"\n">>)
  /\ ~Includes(buffer, SLIDE_START_DELIMITER)

C16_AllRecordsOfAChunk ==
  /\ [](pc = "await" => ~RecordReady(buffer))
  /\ [][pos' # pos => ~RecordReady(buffer)]_vars
  /\ [][slides' # slides =>
         /\ Len(slides') = Len(slides) + 1
         /\ SubSeq(slides', 1, Len(slides)) = slides
         /\ emitted' = Append(emitted, [main_title |-> mainTitle,
                          slides |-> slides', isComplete |-> FALSE,
                          shared |-> FALSE])]_vars
  /\ [](\A g1 \in GoodRecords, g2 \in GoodRecords :
          (text = g1 \o g2 /\ pc = "await" /\ pos = Len(text)) =>
             /\ slides = <<SlideOf(g1), SlideOf(g2)>>
             /\ Cardinality(SlideSnapshots) = 2)

\* a snapshot of the first slide is being delivered while the chunk that
\* completed its record has completed a second well-formed record too
C16_Witness ==
  /\ pc = "yieldSlide"
  /\ Len(slides) = 1
  /\ RecordReady(AfterEndMarker(buffer))
  /\ JsonParses(slideContent(AfterEndMarker(buffer)))
  /\ ValidSlideData(slideContent(AfterEndMarker(buffer)))

\* the slide with the required values r and every optional field empty
DefaultedSlide(r) ==
  [ title |-> r.title, content |-> r.content, layout |-> r.layout,
    image_prompt |-> "", speaker_notes |-> "", subtitle |-> "",
    keyPoints |-> <<>>, examples |-> <<>>, statistics |-> "" ]

\* the two forms of each record with the slide they are to give
DefaultingCases ==
  { [bare |-> RecordBare(r), explicit |-> RecordExplicit(r),
     slide |-> DefaultedSlide(r)] : r \in RequiredValues }

\* the decoder gives equal slides for the two forms of a record
DecoderDefaults ==
  \A c \in DefaultingCases :
    /\ ValidSlideData(slideContent(c.bare))
    /\ ValidSlideData(slideContent(c.explicit))
    /\ MakeSlide(slideContent(c.bare)) = MakeSlide(slideContent(c.explicit))

\* C17: a record with truthy title, content and layout decodes to the same
\* slide whether its optional fields are absent or set to '' and []: the
\* decoder gives equal slides for the two forms, and a stream that carries
\* either form collects, yields and passes to the callback the slide whose
\* optional fields are all empty
C17_DefaultingIdempotence ==
  /\ DecoderDefaults
  /\ text \in DefaultingTexts =>
       \A c \in DefaultingCases :
         (text \in {c.bare, c.explicit} /\ (slides # <<>> \/ pc = "yieldFinal")) =>
            /\ slides = <<c.slide>>
            /\ calls[1].slide = c.slide
            /\ \A i \in 1..Len(emitted) : emitted[i].slides = <<c.slide>>

C17_Witness ==
  /\ \E c \in DefaultingCases : text = c.explicit /\ c.slide.layout = "title_content"
  /\ pc = "yieldSlide"
  /\ Len(slides) = 1
  /\ Len(emitted) = 1

\* a slide whose required fields are truthy and whose optional fields are
\* all defined
Populated(s) ==
  /\ s.title \notin {"", Undefined}
  /\ s.content \notin {"", Undefined}
  /\ s.layout \notin {"", Undefined}
  /\ s.image_prompt # Undefined
  /\ s.speaker_notes # Undefined
  /\ s.subtitle # Undefined
  /\ s.statistics # Undefined
  /\ s.keyPoints \in Seq(STRING)
  /\ s.examples \in Seq(STRING)

\* C18: every slide of every yielded snapshot, of the slides array and of
\* every callback has truthy title, content and layout and has each optional
\* field defined
C18_SlidesPopulated ==
  /\ \A i \in 1..Len(emitted) :
       \A j \in 1..Len(emitted[i].slides) : Populated(emitted[i].slides[j])
  /\ \A j \in 1..Len(slides) : Populated(slides[j])
  /\ \A j \in 1..Len(calls) : Populated(calls[j].slide)

\* the record with null fields was decoded, the one with the falsy layout
\* was dropped, and the stream went on to its end
C18_Witness ==
  /\ text = PopulationText
  /\ pc = "done"
  /\ Len(slides) = 2
  /\ slides[1].content = "C2" /\ slides[1].subtitle = "" /\ slides[1].keyPoints = <<>>
  /\ slides[2] = SlideT1
  /\ Len(emitted) = 4

\* the snapshots yielded so far, as the consumer receives them
PlainSnapshots ==
  [ i \in 1..Len(emitted) |->
      [main_title |-> emitted[i].main_title, slides |-> emitted[i].slides,
       isComplete |-> emitted[i].isComplete] ]

ScenarioSnapshots ==
  << [main_title |-> "Topic A", slides |-> <<>>, isComplete |-> FALSE],
     [main_title |-> "Topic A", slides |-> <<SlideT1>>, isComplete |-> FALSE],
     [main_title |-> "Topic A", slides |-> <<SlideT1, SlideT2>>, isComplete |-> FALSE],
     [main_title |-> "Topic A", slides |-> <<SlideT1, SlideT2>>, isComplete |-> TRUE] >>

\* C19: for the title object, record T1, record T2 with title, content and
\* layout only, and the terminal marker, delivered as those four chunks or
\* divided into chunks in any other way, the snapshots are in order the
\* title-only one, [T1], [T1, T2] and [T1, T2] with isComplete true, T2 has
\* its optional fields empty, and the stream ends without an error
C19_Scenario ==
  text = ScenarioText =>
    /\ IsPrefix(PlainSnapshots, ScenarioSnapshots)
    /\ genError # "validation"
    /\ pos = Len(text) =>
         /\ genError = "none"
         /\ pc \in {"yieldTitle", "extract", "yieldSlide", "yieldFinal", "done"}
    /\ pc = "done" => PlainSnapshots = ScenarioSnapshots

C19_Witness ==
  /\ text = ScenarioText
  /\ pc = "done"
  /\ ~cutInMarker
  /\ genError = "none"
  /\ Len(emitted) = 4
  /\ emitted[4].isComplete
  /\ emitted[3].slides[2].image_prompt = ""
  /\ emitted[3].slides[2].keyPoints = <<>>

\* the snapshots in a sequence e of yielded values, as a consumer receives
\* them
PlainOf(e) ==
  [ i \in 1..Len(e) |->
      [main_title |-> e[i].main_title, slides |-> e[i].slides,
       isComplete |-> e[i].isComplete] ]

\* the snapshots of a stream with the title t and the one slide s
OneSlideSnapshots(t, s) ==
  << [main_title |-> t, slides |-> <<>>, isComplete |-> FALSE],
     [main_title |-> t, slides |-> <<s>>, isComplete |-> FALSE],
     [main_title |-> t, slides |-> <<s>>, isComplete |-> TRUE] >>

\* what a generator yields for the text t when no other generator runs
SoloSnapshots(t) ==
  IF t = FirstText
  THEN OneSlideSnapshots("Topic A", DefaultedSlide(RequiredT1))
  ELSE OneSlideSnapshots("Topic B", DefaultedSlide(RequiredT2))

\* a generator with locals f has yielded what it yields alone so far, and
\* all of it once it has ended
AsAlone(f) ==
  /\ IsPrefix(PlainOf(f.emitted), SoloSnapshots(f.text))
  /\ f.genError # "validation"
  /\ f.pc = "threw" => f.genError = "transport"
  /\ f.pc = "done" => PlainOf(f.emitted) = SoloSnapshots(f.text)
  /\ Len(f.calls) = Len(f.slides)
  /\ f.slideIndex = Len(f.slides)
  /\ f.titleYielded = (f.mainTitle # "")

\* C20: two generators whose steps interleave in any way each yield the
\* snapshots they yield when run alone, and a step of one leaves the buffer,
\* title, slides, slide index and title latch of the other as they were
C20_RequestIsolation ==
  /\ [](other # <<>> => (AsAlone(Locals) /\ AsAlone(other[1])))
  /\ [][other' = other \/ (other' = <<Locals>> /\ <<Locals'>> = other)]_vars

C20_Witness ==
  /\ other # <<>>
  /\ interleaved
  /\ text # other[1].text
  /\ pc = "done"
  /\ other[1].pc = "done"
  /\ Len(emitted) = 3
  /\ Len(other[1].emitted) = 3

\* the first occurrence of the marker pat in b starts after i pieces
FirstAt(b, pat, i) ==
  MatchesAt(b, pat, i) /\ \A k \in 0..(i - 1) : ~MatchesAt(b, pat, k)

\* C21: when the first start marker comes before the first end marker, the
\* candidate is the trimmed text strictly between the two, the step either
\* appends the slide decoded from it or appends nothing because it does not
\* decode, and once the step is over the buffer is exactly the text that
\* followed the end marker
C21_ExtractionStep ==
  /\ [][(pc = "extract" /\ RecordReady(buffer)) =>
         \E i \in 0..Len(buffer), j \in 0..Len(buffer) :
           /\ FirstAt(buffer, SLIDE_START_DELIMITER, i)
           /\ FirstAt(buffer, SLIDE_END_DELIMITER, j)
           /\ i < j
           /\ LET candidate == Trim(SubSeq(buffer, i + 3, j))
              IN  \/ /\ JsonParses(candidate) /\ ValidSlideData(candidate)
                     /\ pc' = "yieldSlide"
                     /\ slides' = Append(slides, MakeSlide(candidate))
                     /\ buffer' = buffer
                  \/ /\ ~(JsonParses(candidate) /\ ValidSlideData(candidate))
                     /\ pc' = "extract"
                     /\ slides' = slides
                     /\ buffer' = SubSeq(buffer, j + 3, Len(buffer))]_vars
  /\ [][pc = "yieldSlide" =>
         \E j \in 0..Len(buffer) :
           /\ FirstAt(buffer, SLIDE_END_DELIMITER, j)
           /\ pc' = "extract"
           /\ buffer' = SubSeq(buffer, j + 3, Len(buffer))]_vars

\* a record surrounded by whitespace was decoded and the half of a marker
\* that followed its end marker is what the buffer holds
C21_Witness ==
  /\ pc = "extract"
  /\ slides = <<SlideT1>>
  /\ buffer = <<"SLIDE_START_">>

\* C22: every slide of every yielded snapshot has a layout that is one of
\* the fifteen layout tags, so that a record whose layout is another
\* non-empty string gives no slide
C22_LayoutClosedSet ==
  \A i \in 1..Len(emitted) :
    \A j \in 1..Len(emitted[i].slides) : emitted[i].slides[j].layout \in LayoutTags

\* C23: every entry of imageCache and of audioCache was stored by a fetch
\* started for the most recent generation request: a fetch of an earlier
\* request stores nothing once the caches have been cleared for a later one
C23_CachesRequestScoped ==
  \A e \in imageCache \cup audioCache : e[2] = requestId

\* C28: after Start Over was pressed during a generation, and until the
\* next generation is requested, partialPresentation and presentation are
\* null and streamingState is idle
C28_StartOverAbandons ==
  abandoned =>
    /\ partialPresentation = <<>>
    /\ presentation = <<>>
    /\ streamingState = Idle

\* C29: while preloadState is loading, the loaded count of images and of
\* audio is at most its total
C29_PreloadBounded ==
  preloadState.status = "loading" =>
    /\ preloadState.images[1] <= preloadState.images[2]
    /\ preloadState.audio[1] <= preloadState.audio[2]

\* C24: a snapshot yielded before the title is captured has the empty
\* main_title, every snapshot from the first one with a title on has that
\* same title, the final one included, and the title, once captured, is
\* never replaced, not even by a second title object later in the stream
C24_TitleStable ==
  /\ [](\A i \in 1..Len(emitted) : emitted[i].main_title \in {"", mainTitle})
  /\ [](\A i \in 1..Len(emitted), j \in 1..Len(emitted) :
          (i < j /\ emitted[i].main_title # "") =>
             emitted[j].main_title = emitted[i].main_title)
  /\ [](mainTitle = "" => \A i \in 1..Len(emitted) : emitted[i].main_title = "")
  /\ [][mainTitle # "" => mainTitle' = mainTitle]_vars
  /\ [](text = TwoTitlesText => mainTitle \in {"", "Topic A"})

\* the stream with two title objects has ended and all its snapshots have
\* the first title
C24_Witness ==
  /\ text = TwoTitlesText
  /\ pc = "done"
  /\ Len(emitted) = 4
  /\ emitted[4].isComplete
  /\ emitted[4].main_title = "Topic A"
  /\ Len(emitted[4].slides) = 2

\* C25: when the callback throws, the stream goes on: the step leaves the
\* generator in its loop with no error, the slide pushed and the buffer cut
\* after the end marker of the record; every later well-formed record is
\* extracted and appended as if no callback had thrown, and the snapshot
\* yielded for it holds all the slides so far
C25_CallbackThrowSwallowed ==
  /\ [][(Len(calls') > Len(calls) /\ emitted' = emitted) =>
         /\ pc' = "extract"
         /\ genError' = genError
         /\ slides' = Append(slides, calls'[Len(calls')].slide)
         /\ buffer' = SubSeq(buffer, endIndex(buffer) + 3, Len(buffer))]_vars
  /\ [][(pc = "extract" /\ pc' = "yieldSlide") =>
         /\ Len(slides') = Len(slides) + 1
         /\ emitted' = Append(emitted, [main_title |-> mainTitle,
                          slides |-> slides', isComplete |-> FALSE,
                          shared |-> FALSE])]_vars
  /\ [](Len(calls) = Len(slides))
  /\ []((FinalEmitted /\ TerminalAfterRecords(text)) =>
          FinalSlides = SingleChunkSlides(text))
  /\ [](genError = "validation" => (mainTitle = "" \/ Len(slides) = 0))

\* the callback threw for the first slide and returned for the second, whose
\* snapshot holds both slides; the stream has ended without an error
C25_Witness ==
  /\ pc = "done"
  /\ genError = "none"
  /\ Len(slides) = 2
  /\ slideIndex = 1
  /\ Cardinality(SlideSnapshots) = 1
  /\ \A i \in SlideSnapshots : Len(emitted[i].slides) = 2

\* the buffer b holds the terminal marker and, after it, a complete record
MarkerBeforeRecord(b) ==
  /\ Includes(b, SLIDE_START_DELIMITER)
  /\ Includes(b, SLIDE_END_DELIMITER)
  /\ IndexOf(b, SLIDE_START_DELIMITER) < IndexOf(b, SLIDE_END_DELIMITER)
  /\ Includes(b, PRESENTATION_COMPLETE_DELIMITER)
  /\ IndexOf(b, PRESENTATION_COMPLETE_DELIMITER) < IndexOf(b, SLIDE_START_DELIMITER)

\* C26: when a complete record follows the terminal marker in the buffer,
\* the pass extracts the record, yielding its slide if it decodes, and cuts
\* the marker off with the record, without completing; completion is flagged
\* only by a marker that is in the buffer when no record is left to
\* extract, so a stream whose only marker came before its record ends at
\* source exhaustion
C26_MarkerAfterExtraction ==
  /\ [][(pc = "extract" /\ MarkerBeforeRecord(buffer)) =>
         /\ ~isComplete'
         /\ pc' \in {"yieldSlide", "extract"}
         /\ (JsonParses(slideContent(buffer)) /\ ValidSlideData(slideContent(buffer))) =>
              /\ pc' = "yieldSlide"
              /\ slides' = Append(slides, MakeSlide(slideContent(buffer)))
              /\ emitted' = Append(emitted, [main_title |-> mainTitle,
                               slides |-> slides', isComplete |-> FALSE,
                               shared |-> FALSE])
         /\ pc' = "extract" =>
              buffer' = SubSeq(buffer, IndexOf(buffer, SLIDE_END_DELIMITER) + 3,
                               Len(buffer))]_vars
  /\ [][(pc = "yieldSlide" /\ MarkerBeforeRecord(buffer)) =>
         /\ ~isComplete'
         /\ buffer' = SubSeq(buffer, IndexOf(buffer, SLIDE_END_DELIMITER) + 3,
                             Len(buffer))]_vars
  /\ [][(~isComplete /\ isComplete') =>
         /\ Includes(buffer, PRESENTATION_COMPLETE_DELIMITER)
         /\ ~(BothMarkers(buffer) /\ startIndex(buffer) < endIndex(buffer))]_vars
  /\ [](\A g \in GoodRecords :
          (text = Flatten(<<TitleObject, PRESENTATION_COMPLETE_DELIMITER, g>>)
           /\ slides # <<>>) =>
             /\ ~isComplete
             /\ slides = <<SlideOf(g)>>
             /\ FinalEmitted => pos = Len(text))

\* the marker came with the record that follows it: the slide was yielded
\* and the stream ended at source exhaustion
C26_Witness ==
  /\ text = Flatten(<<TitleObject, PRESENTATION_COMPLETE_DELIMITER, RecordT1>>)
  /\ pc = "done"
  /\ ~isComplete
  /\ slides = <<SlideT1>>
  /\ FinalEmitted
  /\ Cardinality(SlideSnapshots) = 1

\* a second start marker lies between the first start marker of b and its
\* first end marker
StartInsideCandidate(b) ==
  LET s == IndexOf(b, SLIDE_START_DELIMITER)
      e == IndexOf(b, SLIDE_END_DELIMITER)
  IN  /\ s # -1
      /\ e # -1
      /\ s < e
      /\ Includes(SubSeq(b, s + 3, e), SLIDE_START_DELIMITER)

\* C27: when the text between the first start marker and the first end
\* marker holds a second start marker, the candidate does not decode and one
\* step removes it whole: no slide, no snapshot, no callback, and the buffer
\* is what followed the end marker; so of START r1 START r2 END neither r1
\* nor r2 becomes a slide
C27_MissingEndAbsorbs ==
  /\ [][(pc = "extract" /\ StartInsideCandidate(buffer)) =>
         /\ pc' = "extract"
         /\ slides' = slides
         /\ emitted' = emitted
         /\ calls' = calls
         /\ buffer' = SubSeq(buffer, IndexOf(buffer, SLIDE_END_DELIMITER) + 3,
                             Len(buffer))]_vars
  /\ [](text = MissingEndText =>
          /\ IsPrefix(slides, <<DefaultedSlide(RequiredT1)>>)
          /\ slides # <<>> => pos = Len(text)
          /\ pc = "done" => /\ slides = <<DefaultedSlide(RequiredT1)>>
                            /\ Len(emitted) = 3)

\* the record without its end marker and the record after it are gone and
\* the last record gave the only slide
C27_Witness ==
  /\ text = MissingEndText
  /\ pc = "done"
  /\ slides = <<DefaultedSlide(RequiredT1)>>
  /\ Len(calls) = 1
  /\ buffer = <<>>

RECURSIVE DelayAfter(_)
DelayAfter(n) == IF n = 0 THEN 500 ELSE 2 * DelayAfter(n - 1)

FetchFailures(log) == Len(SelectSeq(log, LAMBDA o : o # "image"))

\* the bookkeeping of a call: one request per entry of the log plus the one
\* in flight, one retry spent and one doubling of the delay per request after
\* the first, and never more requests than the retries given plus one
FetchAccounts(f) ==
  /\ f.attempts <= f.given + 1
  /\ f.attempts = Len(f.log) + (IF f.at = "pending" THEN 1 ELSE 0)
  /\ f.retries = f.given - (IF f.attempts = 0 THEN 0 ELSE f.attempts - 1)
  /\ f.delay = DelayAfter(f.given - f.retries)
  /\ f.retries >= 0
  /\ f.at = "delay" => FetchFailures(f.log) = f.attempts
  /\ f.at = "resolved" =>
       /\ f.log[Len(f.log)] = "image"
       /\ FetchFailures(f.log) = f.attempts - 1
       /\ f.message = ""

\* how a call ends in an error: an empty prompt at once, without a request;
\* any other only on a failed request made with no retry left
FetchRejects(f) ==
  f.at = "rejected" =>
    IF f.prompt = ""
    THEN f.attempts = 0 /\ f.log = <<>> /\ f.retries = f.given /\ f.delay = 500
         /\ f.message = "Image prompt cannot be empty."
    ELSE f.retries = 0 /\ f.attempts = f.given + 1
         /\ FetchFailures(f.log) = f.attempts
         /\ f.message = FailureMessage(f.log[Len(f.log)])

\* a failed request with a retry left is followed by exactly one further
\* request, made with one retry less and twice the delay; with no retry left
\* it ends the call in an error
FetchStep ==
  imageFetch # <<>> /\ imageFetch' # <<>> =>
    LET f == imageFetch[1]
        g == imageFetch'[1]
    IN  /\ f.prompt = "" => g.attempts = 0 /\ g.at = "rejected"
        /\ f.at \in {"resolved", "rejected"} => g = f
        /\ f.at = "delay" /\ g # f =>
             g.attempts = f.attempts + 1 /\ g.retries = f.retries - 1
             /\ g.delay = 2 * f.delay /\ g.at = "pending"
        /\ f.at = "pending" /\ g # f =>
             /\ g.attempts = f.attempts /\ g.retries = f.retries /\ g.delay = f.delay
             /\ g.at = IF g.log[Len(g.log)] = "image" THEN "resolved"
                       ELSE IF f.retries > 0 THEN "delay" ELSE "rejected"

\* C30: fetchImageFromInternet(prompt, retries) settles after at most
\* retries + 1 requests (4 with the default of 3); every failed request (a
\* status that is not OK, no image, a network error) with a retry left is
\* followed by exactly one retry with retries - 1 and twice the delay, a
\* failure with retries = 0 is reported as an error, and an empty prompt
\* fails at once without any request or retry
C30_FetchTerminates ==
  /\ [](imageFetch # <<>> => FetchAccounts(imageFetch[1]) /\ FetchRejects(imageFetch[1]))
  /\ [][FetchStep]_vars
  /\ <>(imageFetch # <<>> /\ imageFetch[1].at \in {"resolved", "rejected"})

\* the default call fails four times: 500, 1000, 2000 ms waited, delay 4000
\* at the last request, then the error
C30_Witness ==
  /\ imageFetch # <<>>
  /\ imageFetch[1].given = 3
  /\ imageFetch[1].at = "rejected"
  /\ imageFetch[1].attempts = 4
  /\ imageFetch[1].delay = 4000
  /\ imageFetch[1].log = <<"status", "empty", "network", "network">>

====
